---------------------------- MODULE Spec2Model ----------------------------
(***************************************************************************)
(* Model of lldap's OPAQUE login/registration handlers                     *)
(* (server/src/domain/sql_opaque_handler.rs).                              *)
(*                                                                         *)
(* The server keeps one table, users(user_id, password_hash), and one      *)
(* process-wide secret key.  Clients run two-step exchanges; between the   *)
(* two steps the client holds the server_data token and the server holds   *)
(* nothing.  A client is free to alter the token it holds, to present the  *)
(* token of another exchange, to send a finalization it did not compute,   *)
(* and to call a finish handler again.                                     *)
(***************************************************************************)
EXTENDS Naturals, Sequences, FiniteSets

\* ------------------------------------------------------------------ bounds
NumSlots == 2       \* exchanges that may be in flight at the same time
MaxNonce == 1       \* values the random source may draw (1..MaxNonce)

Slots     == 1..NumSlots
Nonces    == 1..MaxNonce
Users     == {"alice", "bob"}
Passwords == {"bob00", "wrong_password"}

ServerKey == "server_key"     \* config.get_server_keys().private()
OtherKey  == "other_key"      \* any key that is not the server's

VARIABLES store,   \* users table: user id -> password_hash column
          slot,    \* the exchanges in flight, as their clients see them
          reg      \* history: per user, what the last registration_finish calls wrote

vars == <<store, slot, reg>>


\* ------------------------------------------------------- values and codecs
\* A password file is what the PAKE primitive derives from a registration
\* upload: the client's key material locked under rwd, the output of the
\* oblivious PRF on (password, per-user server key).  rwd is one-way: it is
\* kept as the pair it was computed from so that equality of two rwd values
\* means equality of password and user.
NoRwd  == [pw |-> "none", user |-> "none"]
NoFile == [some |-> FALSE, rwd |-> NoRwd, id |-> 0]
SomeFile(rwd, id) == [some |-> TRUE, rwd |-> rwd, id |-> id]

\* ServerRegistration::serialize / ::deserialize: the stored bytes are the
\* fields in order; bytes of any other length do not decode.
file_serialize(f) == <<f.rwd, f.id>>
file_deserialize(bytes) ==
    IF Len(bytes) = 2
    THEN [ok |-> TRUE, file |-> SomeFile(bytes[1], bytes[2])]
    ELSE [ok |-> FALSE, file |-> NoFile]

\* password_hash column of one user.
NoRow        == [st |-> "NoRow", bytes |-> <<>>]
NullPassword == [st |-> "Null", bytes |-> <<>>]
Stored(bytes) == [st |-> "Some", bytes |-> bytes]

\* bincode::serialize of registration::ServerData { username } and of
\* login::ServerData { username, server_login }: the fields in order.
NoServerLogin == [file |-> NoFile, cn |-> 0, sn |-> 0, user |-> "none"]
serialize_registration_data(username) == <<username>>
serialize_login_data(username, server_login) == <<username, server_login>>

\* bincode::deserialize reads the fields of the target type in order and
\* fails when the input ends early; input left over after the last field is
\* not an error.
deserialize_registration_data(bytes) ==
    IF Len(bytes) >= 1
    THEN [ok |-> TRUE, username |-> bytes[1]]
    ELSE [ok |-> FALSE, username |-> "none"]
deserialize_login_data(bytes) ==
    IF Len(bytes) >= 2
    THEN [ok |-> TRUE, username |-> bytes[1], server_login |-> bytes[2]]
    ELSE [ok |-> FALSE, username |-> "none", server_login |-> NoServerLogin]

\* orion::aead::seal / open: a ciphertext opens only under the key that
\* sealed it and only if no byte of it was changed or dropped.
Damages == {"altered", "truncated"}
seal(key, plaintext) == [key |-> key, pt |-> plaintext, dmg |-> "none"]
open(key, ct) ==
    IF ct.key = key /\ ct.dmg = "none"
    THEN [ok |-> TRUE, pt |-> ct.pt]
    ELSE [ok |-> FALSE, pt |-> <<>>]

\* base64::encode / decode of the sealed bytes.
base64_encode(ct) == [b64 |-> TRUE, ct |-> ct]
base64_decode(token) ==
    IF token.b64 THEN [ok |-> TRUE, ct |-> token.ct]
    ELSE [ok |-> FALSE, ct |-> token.ct]

NoToken == base64_encode([key |-> "none", pt |-> <<>>, dmg |-> "none"])

\* ------------------------------------------------------- the PAKE primitive
\* Client side.  The request carries the blinded password, which reveals
\* nothing about it: only the client's nonce is visible.
client_start(password, cn) ==
    [message |-> [cn |-> cn], state |-> [pw |-> password, cn |-> cn]]

\* opaque::server::registration::start_registration: evaluates the blinded
\* element under the key the server derives for this username.
server_start_registration(message, username) ==
    [message |-> [t |-> "reg", user |-> username, file |-> NoFile, sn |-> 0]]

\* opaque::client::registration::finish_registration: unblinds to rwd and
\* locks fresh client key material (named by the client's nonce) under it.
client_finish_registration(state, response) ==
    [message |-> [rwd |-> [pw |-> state.pw, user |-> response.user],
                  id |-> state.cn]]

\* opaque::server::registration::get_password_file
get_password_file(upload) == SomeFile(upload.rwd, upload.id)

\* opaque::server::login::start_login: with no password file the primitive
\* answers from a dummy record that no password opens.
server_start_login(sn, password_file, message, username) ==
    [message |-> [t |-> "login", user |-> username, file |-> password_file,
                  sn |-> sn],
     state   |-> [file |-> password_file, cn |-> message.cn, sn |-> sn,
                  user |-> username]]

\* opaque::client::login::finish_login: unblinds to rwd and opens the
\* record with it; fails unless the record was locked under the same rwd.
NoFinalization == [key |-> NoFile, user |-> "none", cn |-> 0, sn |-> 0]
client_finish_login(state, response) ==
    IF response.file.some
       /\ response.file.rwd = [pw |-> state.pw, user |-> response.user]
    THEN [ok |-> TRUE,
          message |-> [key |-> response.file, user |-> response.user,
                       cn |-> state.cn, sn |-> response.sn]]
    ELSE [ok |-> FALSE, message |-> NoFinalization]

\* opaque::server::login::finish_login: the finalization must be the MAC,
\* under the key material of the record used at start, of this transcript
\* (the response evaluated for this user, and both random draws).
server_finish_login(server_login, finalization) ==
    /\ server_login.file.some
    /\ finalization.key = server_login.file
    /\ finalization.user = server_login.user
    /\ finalization.cn = server_login.cn
    /\ finalization.sn = server_login.sn


\* ------------------------------------------------------------ the handlers
\* Every handler is a function of the table, the request, the random draws
\* and the outcome of its store call (db_ok: the query itself succeeded).
\* "calls" counts the store calls the handler made.

\* Mutant of get_password_file_for_user: a user without a row is reported
\* as an error instead of "no password file".
get_password_file_for_user_no_user_error(st, username, db_ok) ==
    IF ~db_ok THEN [res |-> "DatabaseError", file |-> NoFile]
    ELSE IF st[username].st = "NoRow"
         THEN [res |-> "InternalError", file |-> NoFile]
    ELSE IF st[username].st = "Null" THEN [res |-> "Ok", file |-> NoFile]
    ELSE LET d == file_deserialize(st[username].bytes)
         IN  IF d.ok THEN [res |-> "Ok", file |-> d.file]
             ELSE [res |-> "InternalError", file |-> NoFile]

\* Mutant of get_password_file_for_user: bytes that do not decode count as
\* "no password file".
get_password_file_for_user_corrupt_as_none(st, username, db_ok) ==
    IF ~db_ok THEN [res |-> "DatabaseError", file |-> NoFile]
    ELSE IF st[username].st = "NoRow" THEN [res |-> "Ok", file |-> NoFile]
    ELSE IF st[username].st = "Null" THEN [res |-> "Ok", file |-> NoFile]
    ELSE LET d == file_deserialize(st[username].bytes)
         IN  IF d.ok THEN [res |-> "Ok", file |-> d.file]
             ELSE [res |-> "Ok", file |-> NoFile]

\* get_password_file_for_user: fetch_optional, then the column, then decode.
get_password_file_for_user(st, username, db_ok) ==
    IF ~db_ok THEN [res |-> "DatabaseError", file |-> NoFile]
    ELSE IF st[username].st = "NoRow" THEN [res |-> "Ok", file |-> NoFile]
    ELSE IF st[username].st = "Null" THEN [res |-> "Ok", file |-> NoFile]
    ELSE LET d == file_deserialize(st[username].bytes)
         IN  IF d.ok THEN [res |-> "Ok", file |-> d.file]
             ELSE [res |-> "InternalError", file |-> NoFile]

\* Mutant of passwords_match: the server side is started for an empty
\* username instead of the user's.
passwords_match_blank_user(password_file_bytes, clear_password, username, cn, sn) ==
    LET client_login_start_result == client_start(clear_password, cn)
        d == file_deserialize(password_file_bytes)
    IN  IF ~d.ok THEN "AuthenticationProtocolError"
        ELSE LET server_login_start_result ==
                     server_start_login(sn, d.file,
                                        client_login_start_result.message,
                                        "")
             IN  IF client_finish_login(client_login_start_result.state,
                                        server_login_start_result.message).ok
                 THEN "Ok"
                 ELSE "AuthenticationProtocolError"

\* passwords_match: a whole login exchange run in-process.
passwords_match(password_file_bytes, clear_password, username, cn, sn) ==
    LET client_login_start_result == client_start(clear_password, cn)
        d == file_deserialize(password_file_bytes)
    IN  IF ~d.ok THEN "AuthenticationProtocolError"
        ELSE LET server_login_start_result ==
                     server_start_login(sn, d.file,
                                        client_login_start_result.message,
                                        username)
             IN  IF client_finish_login(client_login_start_result.state,
                                        server_login_start_result.message).ok
                 THEN "Ok"
                 ELSE "AuthenticationProtocolError"

\* Mutant of bind: a row whose password is null lets the bind through.
bind_null_password_ok(st, request, cn, sn, db_ok) ==
    IF db_ok /\ st[request.name].st # "NoRow"
    THEN IF st[request.name].st = "Some"
         THEN IF passwords_match(st[request.name].bytes, request.password,
                                 request.name, cn, sn) = "Ok"
              THEN [res |-> "Ok", pm |-> TRUE, calls |-> 1]
              ELSE [res |-> "AuthenticationError", pm |-> TRUE, calls |-> 1]
         ELSE [res |-> "Ok", pm |-> FALSE, calls |-> 1]
    ELSE [res |-> "AuthenticationError", pm |-> FALSE, calls |-> 1]

\* LoginHandler::bind.  fetch_one gives Err both when the query fails and
\* when no row matches; "pm" records whether passwords_match was run.
bind(st, request, cn, sn, db_ok) ==
    IF db_ok /\ st[request.name].st # "NoRow"
    THEN IF st[request.name].st = "Some"
         THEN IF passwords_match(st[request.name].bytes, request.password,
                                 request.name, cn, sn) = "Ok"
              THEN [res |-> "Ok", pm |-> TRUE, calls |-> 1]
              ELSE [res |-> "AuthenticationError", pm |-> TRUE, calls |-> 1]
         ELSE [res |-> "AuthenticationError", pm |-> FALSE, calls |-> 1]
    ELSE [res |-> "AuthenticationError", pm |-> FALSE, calls |-> 1]

NoResponse == [t |-> "none", user |-> "none", file |-> NoFile, sn |-> 0]

\* Mutant of login_start: the primitive is started without the password
\* file that was fetched.
login_start_without_file(st, request, sn, db_ok) ==
    LET maybe_password_file ==
            get_password_file_for_user(st, request.username, db_ok)
    IN  IF maybe_password_file.res # "Ok"
        THEN [res |-> maybe_password_file.res, server_data |-> NoToken,
              credential_response |-> NoResponse, calls |-> 1]
        ELSE LET start_response ==
                     server_start_login(sn, NoFile,
                                        request.login_start_request,
                                        request.username)
             IN  [res |-> "Ok",
                  server_data |->
                      base64_encode(seal(ServerKey,
                          serialize_login_data(request.username,
                                               start_response.state))),
                  credential_response |-> start_response.message,
                  calls |-> 1]

\* OpaqueHandler::login_start
login_start(st, request, sn, db_ok) ==
    LET maybe_password_file ==
            get_password_file_for_user(st, request.username, db_ok)
    IN  IF maybe_password_file.res # "Ok"
        THEN [res |-> maybe_password_file.res, server_data |-> NoToken,
              credential_response |-> NoResponse, calls |-> 1]
        ELSE LET start_response ==
                     server_start_login(sn, maybe_password_file.file,
                                        request.login_start_request,
                                        request.username)
                 server_data ==
                     serialize_login_data(request.username,
                                          start_response.state)
                 encrypted_state == seal(ServerKey, server_data)
             IN  [res |-> "Ok",
                  server_data |-> base64_encode(encrypted_state),
                  credential_response |-> start_response.message,
                  calls |-> 1]

\* Mutant of login_finish: the finalization is not checked.
login_finish_unchecked(request) ==
    LET decoded == base64_decode(request.server_data)
        opened  == open(ServerKey, decoded.ct)
        data    == deserialize_login_data(opened.pt)
    IN  IF ~decoded.ok THEN [res |-> "Base64DecodeError", user |-> "none"]
        ELSE IF ~opened.ok THEN [res |-> "UnknownCryptoError", user |-> "none"]
        ELSE IF ~data.ok
             THEN [res |-> "BinarySerializationError", user |-> "none"]
        ELSE [res |-> "Ok", user |-> data.username]

\* Mutant of login_finish: an envelope that a finish call has accepted is
\* refused from then on.
login_finish_once(request) ==
    LET decoded == base64_decode(request.server_data)
        opened  == open(ServerKey, decoded.ct)
        data    == deserialize_login_data(opened.pt)
    IN  IF ~decoded.ok THEN [res |-> "Base64DecodeError", user |-> "none"]
        ELSE IF ~opened.ok THEN [res |-> "UnknownCryptoError", user |-> "none"]
        ELSE IF ~data.ok
             THEN [res |-> "BinarySerializationError", user |-> "none"]
        ELSE IF \/ ~server_finish_login(data.server_login,
                                        request.credential_finalization)
                \/ \E s \in Slots : /\ slot[s].token = request.server_data
                                    /\ slot[s].nacc >= 1
             THEN [res |-> "AuthenticationProtocolError", user |-> "none"]
        ELSE [res |-> "Ok", user |-> data.username]

\* Mutant of login_finish: the user's password file is fetched again and
\* must still be the one login_start used.
login_finish_rereading(request) ==
    LET decoded == base64_decode(request.server_data)
        opened  == open(ServerKey, decoded.ct)
        data    == deserialize_login_data(opened.pt)
    IN  IF ~decoded.ok THEN [res |-> "Base64DecodeError", user |-> "none"]
        ELSE IF ~opened.ok THEN [res |-> "UnknownCryptoError", user |-> "none"]
        ELSE IF ~data.ok
             THEN [res |-> "BinarySerializationError", user |-> "none"]
        ELSE IF \/ ~server_finish_login(data.server_login,
                                        request.credential_finalization)
                \/ get_password_file_for_user(store, data.username,
                                              TRUE).file
                      # data.server_login.file
             THEN [res |-> "AuthenticationProtocolError", user |-> "none"]
        ELSE [res |-> "Ok", user |-> data.username]

\* OpaqueHandler::login_finish
login_finish(request) ==
    LET decoded == base64_decode(request.server_data)
        opened  == open(ServerKey, decoded.ct)
        data    == deserialize_login_data(opened.pt)
    IN  IF ~decoded.ok THEN [res |-> "Base64DecodeError", user |-> "none"]
        ELSE IF ~opened.ok THEN [res |-> "UnknownCryptoError", user |-> "none"]
        ELSE IF ~data.ok
             THEN [res |-> "BinarySerializationError", user |-> "none"]
        ELSE IF ~server_finish_login(data.server_login,
                                     request.credential_finalization)
             THEN [res |-> "AuthenticationProtocolError", user |-> "none"]
        ELSE [res |-> "Ok", user |-> data.username]

\* OpaqueHandler::registration_start
registration_start(request) ==
    LET start_response ==
            server_start_registration(request.registration_start_request,
                                      request.username)
        server_data == serialize_registration_data(request.username)
        encrypted_state == seal(ServerKey, server_data)
    IN  [res |-> "Ok",
         server_data |-> base64_encode(encrypted_state),
         registration_response |-> start_response.message]

\* Mutants of update_password_hash: an insert-or-update; an update without
\* its WHERE clause; and an update that only fills a null column.
update_password_hash_upsert(st, username, bytes) ==
    IF username \in DOMAIN st
    THEN [st EXCEPT ![username] = Stored(bytes)]
    ELSE st
update_password_hash_all_rows(st, username, bytes) ==
    [u \in DOMAIN st |-> IF st[u].st # "NoRow" THEN Stored(bytes) ELSE st[u]]
update_password_hash_if_null(st, username, bytes) ==
    IF username \in DOMAIN st /\ st[username].st = "Null"
    THEN [st EXCEPT ![username] = Stored(bytes)]
    ELSE st

\* UPDATE users SET password_hash = bytes WHERE user_id = username: a
\* statement that matches no row changes nothing and is not an error.
update_password_hash(st, username, bytes) ==
    IF username \in DOMAIN st /\ st[username].st # "NoRow"
    THEN [st EXCEPT ![username] = Stored(bytes)]
    ELSE st

\* Mutant of registration_finish: the payload is used whether or not the
\* envelope opened.
registration_finish_unverified(st, request, db_ok) ==
    LET decoded == base64_decode(request.server_data)
        data    == deserialize_registration_data(decoded.ct.pt)
        password_file == get_password_file(request.registration_upload)
        fail(e) == [res |-> e, store |-> st, username |-> "none", calls |-> 0]
    IN  IF ~decoded.ok THEN fail("Base64DecodeError")
        ELSE IF ~data.ok THEN fail("BinarySerializationError")
        ELSE IF ~db_ok
             THEN [res |-> "DatabaseError", store |-> st,
                   username |-> data.username, calls |-> 1]
        ELSE [res |-> "Ok",
              store |-> update_password_hash(st, data.username,
                                             file_serialize(password_file)),
              username |-> data.username, calls |-> 1]

\* OpaqueHandler::registration_finish.  "username" is the user the envelope
\* names ("none" when the envelope did not open).
registration_finish(st, request, db_ok) ==
    LET decoded == base64_decode(request.server_data)
        opened  == open(ServerKey, decoded.ct)
        data    == deserialize_registration_data(opened.pt)
        password_file == get_password_file(request.registration_upload)
        fail(e) == [res |-> e, store |-> st, username |-> "none", calls |-> 0]
    IN  IF ~decoded.ok THEN fail("Base64DecodeError")
        ELSE IF ~opened.ok THEN fail("UnknownCryptoError")
        ELSE IF ~data.ok THEN fail("BinarySerializationError")
        ELSE IF ~db_ok
             THEN [res |-> "DatabaseError", store |-> st,
                   username |-> data.username, calls |-> 1]
        ELSE [res |-> "Ok",
              store |-> update_password_hash(st, data.username,
                                             file_serialize(password_file)),
              username |-> data.username, calls |-> 1]


\* Mutant of register_password_start: the password is passed where the
\* username belongs.
register_password_start_swapped(username, password, cn) ==
    LET registration_start_c == client_start(password, cn)
    IN  [state |-> registration_start_c.state,
         start_response |->
             registration_start(
                 [username |-> password,
                  registration_start_request |->
                      registration_start_c.message])]

\* register_password, up to the first await: the client's
\* start_registration, then the registration_start request.
register_password_start(username, password, cn) ==
    LET registration_start_c == client_start(password, cn)
    IN  [state |-> registration_start_c.state,
         start_response |->
             registration_start(
                 [username |-> username,
                  registration_start_request |->
                      registration_start_c.message])]

\* tests::attempt_login: a whole login exchange of an honest client against
\* the table st, every step propagating the first error.
attempt_login(st, username, password, cn, sn, db_ok) ==
    LET c == client_start(password, cn)
        start_response ==
            login_start(st, [username |-> username,
                             login_start_request |-> c.message], sn, db_ok)
        f == client_finish_login(c.state, start_response.credential_response)
        r == login_finish([server_data |-> start_response.server_data,
                           credential_finalization |-> f.message])
    IN  IF start_response.res # "Ok"
        THEN [res |-> start_response.res, user |-> "none"]
        ELSE IF ~f.ok
             THEN [res |-> "AuthenticationProtocolError", user |-> "none"]
        ELSE r

\* ------------------------------------------------------------------- state
\* reg[u]: the last registration exchange whose registration_finish
\* returned success for an envelope naming u while u had a row.
\*   last  its password: "none" before any, "other" when its client
\*         presented a token that was not the one it was given
\*   over  the one before it had registered a different password for u
NoReg == [last |-> "none", over |-> FALSE]

\* One exchange as its client sees it, with what the handlers returned.
\*   kind      idle | login | reg | bind
\*   pc        idle | started (the start handler answered) | done
\*   user, pw  what the client typed; cn: the client's random draw
\*   token     the server_data the start handler returned
\*   resp      the server's protocol message of the start step
\*   sit       store[user].st as the handler's store call found it
\*   sawStore, saw   store[user] and reg[user] as login_start found them
\*   pres      the token presented to the finish handler: own (the one
\*             returned, unchanged) | damaged | login, reg (the token of
\*             another exchange of that kind)
\*   fin       the finalization sent: honest | dummy (not computed from resp)
\*   res, at   the last result and the step that gave it
\*   ret       the user the finish handler named
\*   nacc      how often a finish handler accepted the unchanged token
\*   calls, dbFailed, pm, row, held: what the last handler did (store calls
\*             made; the store call failed; passwords_match was run; the
\*             named user had a row; the derived file was in that row when
\*             the handler returned)
\*   undec     the bytes the handler's store call found did not deserialize
\*   stale     when login_finish ran, the user's row no longer held what
\*             login_start had found
\* An exchange that ended in an error of the start handler, or whose client
\* sent something other than what an honest client sends, or presented its
\* token a second time, keeps only the outcome: its client has nothing left
\* to present.  So does a bind.
IdleSlot ==
    [kind |-> "idle", pc |-> "idle", user |-> "none", pw |-> "none",
     cn |-> 0, token |-> NoToken, resp |-> NoResponse, sit |-> "none", sawStore |-> NoRow,
     saw |-> NoReg, pres |-> "none", fin |-> "none", res |-> "none",
     at |-> "none", ret |-> "none", nacc |-> 0, calls |-> 0,
     dbFailed |-> FALSE, pm |-> FALSE, row |-> FALSE, held |-> FALSE,
     undec |-> FALSE, stale |-> FALSE]

\* tests::get_initialized_db: the table exists and is empty.
Init ==
    /\ store = [u \in Users |-> NoRow]
    /\ slot = [s \in Slots |-> IdleSlot]
    /\ reg = [u \in Users |-> NoReg]

\* Exchanges take the lowest free slot.
Free(s) ==
    /\ slot[s].pc = "idle"
    /\ \A t \in Slots : t < s => slot[t].pc # "idle"

HoldsToken(s) == slot[s].token # NoToken

\* The column holds bytes that are not a serialized password file.
Undecodable(column) ==
    column.st = "Some" /\ ~file_deserialize(column.bytes).ok

\* What a client can put in the server_data field of a finish request: the
\* token it was given; that token with bytes flipped or dropped, or badly
\* encoded; a token it sealed itself, under a key of its own, for the
\* payload of its choice (here: the payload it was given, renamed to any
\* user); the token of another exchange in flight.
Damaged(token) ==
    {[token EXCEPT !.ct.dmg = d] : d \in Damages}
    \cup {[token EXCEPT !.b64 = FALSE]}
    \cup {base64_encode(seal(OtherKey, <<u>> \o Tail(token.ct.pt))) :
             u \in {x \in Users : token.ct.pt # <<>>}}
Presentations(s) ==
    {[pres |-> "own", token |-> slot[s].token]}
    \cup {[pres |-> "damaged", token |-> t] : t \in Damaged(slot[s].token)}
    \cup {[pres |-> slot[t].kind, token |-> slot[t].token] :
             t \in {x \in Slots \ {s} : HoldsToken(x)}}

\* What a login client can put in the credential_finalization field: the
\* message its finish_login computed, or one it made up without the key
\* material (a MAC under no record's key).
honest_finalization(s) ==
    client_finish_login([pw |-> slot[s].pw, cn |-> slot[s].cn], slot[s].resp)
dummy_finalization(s) ==
    [key |-> NoFile, user |-> slot[s].resp.user, cn |-> slot[s].cn,
     sn |-> slot[s].resp.sn]

\* The upload of a registration client.
honest_upload(s) ==
    client_finish_registration([pw |-> slot[s].pw, cn |-> slot[s].cn],
                               slot[s].resp).message

\* ----------------------------------------------------------------- actions
\* tests::insert_user_no_password: create_user leaves password_hash null.
insert_user_no_password(name) ==
    /\ store[name].st = "NoRow"
    /\ store' = [store EXCEPT ![name] = NullPassword]
    /\ UNCHANGED <<slot, reg>>

\* Mutant of LoginStart: a login for a user without a row creates the row.
LoginStart_creating_row(s) ==
    \E u \in Users, p \in Passwords, cn \in Nonces, sn \in Nonces :
       LET c == client_start(p, cn)
           r == login_start(store, [username |-> u,
                                    login_start_request |-> c.message],
                            sn, TRUE)
       IN  /\ Free(s)
           /\ slot' = [slot EXCEPT ![s] =
                  [IdleSlot EXCEPT
                      !.kind = "login", !.pc = "started",
                      !.user = u, !.pw = p, !.cn = cn,
                      !.token = r.server_data,
                      !.resp = r.credential_response,
                      !.res = r.res, !.at = "start",
                      !.sit = store[u].st, !.sawStore = store[u],
                      !.saw = reg[u], !.calls = r.calls]]
           /\ store' = IF store[u].st = "NoRow"
                       THEN [store EXCEPT ![u] = NullPassword]
                       ELSE store
           /\ UNCHANGED reg

\* A client starts a login (tests::attempt_login, first half).
LoginStart(s) ==
    \E u \in Users, p \in Passwords, cn \in Nonces, sn \in Nonces,
       db_ok \in BOOLEAN :
       LET c == client_start(p, cn)
           r == login_start(store, [username |-> u,
                                    login_start_request |-> c.message],
                            sn, db_ok)
       IN  /\ Free(s)
           /\ slot' = [slot EXCEPT ![s] =
                  IF r.res = "Ok"
                  THEN [IdleSlot EXCEPT
                           !.kind = "login", !.pc = "started",
                           !.user = u, !.pw = p, !.cn = cn,
                           !.token = r.server_data,
                           !.resp = r.credential_response,
                           !.res = r.res, !.at = "start",
                           !.sit = store[u].st, !.sawStore = store[u],
                           !.saw = reg[u],
                           !.calls = r.calls, !.dbFailed = ~db_ok]
                  ELSE [IdleSlot EXCEPT
                           !.kind = "login", !.pc = "done",
                           !.res = r.res, !.at = "start",
                           !.sit = store[u].st,
                           !.undec = Undecodable(store[u]),
                           !.calls = r.calls, !.dbFailed = ~db_ok]]
           /\ UNCHANGED <<store, reg>>

\* The client finishes the login (tests::attempt_login, second half): it
\* computes the finalization and calls login_finish.  A client whose
\* finish_login failed has nothing to send and stops, unless it sends a
\* finalization of its own making.
LoginFinish(s) ==
    \E pr \in Presentations(s), forge \in {"honest", "dummy"} :
       LET cf == honest_finalization(s)
           sent == IF forge = "honest" THEN cf.message
                   ELSE dummy_finalization(s)
           r == login_finish([server_data |-> pr.token,
                              credential_finalization |-> sent])
       IN  /\ slot[s].kind = "login"
           /\ HoldsToken(s)
           /\ forge = "dummy" => pr.pres = "own"
           /\ slot' = [slot EXCEPT ![s] =
                  IF forge = "honest" /\ ~cf.ok
                  THEN [@ EXCEPT !.pc = "done", !.pres = "none",
                                 !.fin = "none",
                                 !.res = "AuthenticationProtocolError",
                                 !.at = "client", !.ret = "none",
                                 !.calls = 0, !.dbFailed = FALSE]
                  ELSE IF forge = "honest" /\ pr.pres = "own"
                          /\ slot[s].nacc = 0
                  THEN [@ EXCEPT !.pc = "done", !.pres = pr.pres,
                                 !.fin = forge,
                                 !.res = r.res, !.at = "finish",
                                 !.ret = r.user,
                                 !.stale =
                                     store[slot[s].user] # slot[s].sawStore,
                                 !.nacc = IF r.res = "Ok" THEN 1 ELSE 0,
                                 !.calls = 0, !.dbFailed = FALSE]
                  ELSE [IdleSlot EXCEPT
                           !.kind = "login", !.pc = "done",
                           !.pres = pr.pres, !.fin = forge,
                           !.res = r.res, !.at = "finish",
                           !.ret = r.user,
                           !.nacc = IF r.res = "Ok" /\ pr.pres = "own"
                                    THEN slot[s].nacc + 1 ELSE 0]]
           /\ UNCHANGED <<store, reg>>

\* register_password, first half: client start_registration, then
\* registration_start.
RegistrationStart(s) ==
    \E u \in Users, p \in Passwords, cn \in Nonces :
       LET r == register_password_start(u, p, cn).start_response
       IN  /\ Free(s)
           /\ slot' = [slot EXCEPT ![s] =
                  [IdleSlot EXCEPT
                      !.kind = "reg", !.pc = "started",
                      !.user = u, !.pw = p, !.cn = cn,
                      !.token = r.server_data,
                      !.resp = r.registration_response,
                      !.res = r.res, !.at = "start"]]
           /\ UNCHANGED <<store, reg>>

\* register_password, second half: client finish_registration, then
\* registration_finish.
RegistrationFinish(s) ==
    \E pr \in Presentations(s), db_ok \in BOOLEAN :
       LET upload == honest_upload(s)
           r == registration_finish(store,
                    [server_data |-> pr.token,
                     registration_upload |-> upload], db_ok)
           named == r.username \in Users
       IN  /\ slot[s].kind = "reg"
           /\ HoldsToken(s)
           /\ store' = r.store
           /\ reg' = IF r.res = "Ok" /\ store[r.username].st # "NoRow"
                     THEN [reg EXCEPT ![r.username] =
                              IF pr.pres = "own"
                              THEN [last |-> slot[s].pw,
                                    over |-> @.last \in
                                               Passwords \ {slot[s].pw}]
                              ELSE [last |-> "other", over |-> FALSE]]
                     ELSE reg
           /\ slot' = [slot EXCEPT ![s] =
                  LET out ==
                      [IdleSlot EXCEPT
                          !.kind = "reg", !.pc = "done", !.pres = pr.pres,
                          !.res = r.res, !.at = "finish",
                          !.ret = r.username,
                          !.calls = r.calls,
                          !.dbFailed = (r.calls > 0 /\ ~db_ok),
                          !.row = named /\ store[r.username].st # "NoRow",
                          !.held = /\ r.res = "Ok"
                                   /\ r.store[r.username] =
                                        Stored(file_serialize(
                                            get_password_file(upload)))]
                  IN  IF pr.pres = "own" /\ r.res = "Ok"
                      THEN IF slot[s].nacc = 0
                           THEN [out EXCEPT
                                    !.user = slot[s].user,
                                    !.pw = slot[s].pw, !.cn = slot[s].cn,
                                    !.token = slot[s].token,
                                    !.resp = slot[s].resp, !.nacc = 1]
                           ELSE [out EXCEPT !.nacc = slot[s].nacc + 1]
                      ELSE out]

\* A simple bind of the transport layer.
Bind(s) ==
    \E u \in Users, p \in Passwords, cn \in Nonces, sn \in Nonces,
       db_ok \in BOOLEAN :
       LET r == bind(store, [name |-> u, password |-> p], cn, sn, db_ok)
       IN  /\ Free(s)
           /\ slot' = [slot EXCEPT ![s] =
                  [IdleSlot EXCEPT
                      !.kind = "bind", !.pc = "done",
                      !.res = r.res, !.at = "bind",
                      !.sit = store[u].st,
                      !.undec = Undecodable(store[u]),
                      !.calls = r.calls, !.dbFailed = ~db_ok,
                      !.pm = r.pm]]
           /\ UNCHANGED <<store, reg>>

\* The exchange is over; its client may start another.
Reset(s) ==
    /\ slot[s].pc = "done"
    /\ slot' = [slot EXCEPT ![s] = IdleSlot]
    /\ UNCHANGED <<store, reg>>

Next ==
    \/ \E u \in Users : insert_user_no_password(u)
    \/ \E s \in Slots : LoginStart(s)
    \/ \E s \in Slots : LoginFinish(s)
    \/ \E s \in Slots : RegistrationStart(s)
    \/ \E s \in Slots : RegistrationFinish(s)
    \/ \E s \in Slots : Bind(s)
    \/ \E s \in Slots : Reset(s)

Spec == Init /\ [][Next]_vars

\* The table is shared with whatever else writes the database.  A second
\* specification lets the password_hash column of an existing row come to
\* hold bytes that are not a serialized password file (an empty blob, or a
\* stored file cut short), and follows one exchange at a time.
CutShort(bytes) ==
    {<<>>} \cup (IF Len(bytes) >= 2 THEN {SubSeq(bytes, 1, 1)} ELSE {})
corrupt_password_hash(u) ==
    \E bytes \in CutShort(store[u].bytes) :
       /\ store[u].st # "NoRow"
       /\ ~file_deserialize(bytes).ok
       /\ store[u] # Stored(bytes)
       /\ store' = [store EXCEPT ![u] = Stored(bytes)]
       /\ UNCHANGED <<slot, reg>>

LowestSlot == CHOOSE s \in Slots : \A t \in Slots : s <= t

NextCorrupt ==
    \/ \E u \in Users : insert_user_no_password(u)
    \/ \E u \in Users : corrupt_password_hash(u)
    \/ LoginStart(LowestSlot)
    \/ LoginFinish(LowestSlot)
    \/ RegistrationStart(LowestSlot)
    \/ RegistrationFinish(LowestSlot)
    \/ Bind(LowestSlot)
    \/ Reset(LowestSlot)

SpecCorrupt == Init /\ [][NextCorrupt]_vars


\* ------------------------------------------------------------------ claims
Full(s) == slot[s].user \in Users
OwnHonest(s) ==
    [server_data |-> slot[s].token,
     credential_finalization |-> honest_finalization(s).message]
Uploads == [rwd : [pw : Passwords, user : Users], id : Nonces]

\* C1: once register_password(u, p) has returned success for a user u that
\* has a row, a login exchange of an honest client for u with p whose
\* login_start runs before any further registration_finish for u (and
\* whose store call does not fail) succeeds, and login_finish returns u.
TheoremC1 ==
    \A s \in Slots :
       (slot[s].kind = "login" /\ Full(s) /\ slot[s].saw.last = slot[s].pw)
       => /\ slot[s].pc = "done"
             => /\ slot[s].at = "finish"
                /\ slot[s].res = "Ok"
                /\ slot[s].ret = slot[s].user
          /\ slot[s].pc = "started"
             => /\ honest_finalization(s).ok
                /\ login_finish(OwnHonest(s)) =
                      [res |-> "Ok", user |-> slot[s].user]

WitnessC1 ==
    \E s \in Slots :
       /\ slot[s].kind = "login" /\ Full(s)
       /\ slot[s].saw.last = slot[s].pw
       /\ slot[s].pc = "done" /\ slot[s].at = "finish"
       /\ slot[s].res = "Ok" /\ slot[s].ret = slot[s].user

\* C2: login_finish returns success only to a client that used the password
\* whose password file login_start found stored for the user; an exchange
\* with another password, with a made-up finalization, or for a user with
\* no stored password file never ends in success.
TheoremC2 ==
    \A s \in Slots :
       slot[s].kind = "login"
       => /\ (Full(s) /\ slot[s].at = "finish" /\ slot[s].res = "Ok")
             => /\ slot[s].sawStore.st = "Some"
                /\ file_deserialize(slot[s].sawStore.bytes).ok
                /\ file_deserialize(slot[s].sawStore.bytes).file.rwd =
                      [pw |-> slot[s].pw, user |-> slot[s].user]
          /\ (slot[s].at = "finish"
              /\ (slot[s].fin = "dummy" \/ slot[s].pres = "damaged"))
             => slot[s].res # "Ok"
          /\ HoldsToken(s)
             => \A pr \in Presentations(s), forge \in {"honest", "dummy"} :
                   LET sent == IF forge = "honest"
                               THEN honest_finalization(s).message
                               ELSE dummy_finalization(s)
                       r == login_finish([server_data |-> pr.token,
                                          credential_finalization |-> sent])
                       data == deserialize_login_data(
                                   open(ServerKey,
                                        base64_decode(pr.token).ct).pt)
                   IN  r.res = "Ok"
                       => /\ forge = "honest"
                          /\ honest_finalization(s).ok
                          /\ data.server_login.file.some
                          /\ data.server_login.file.rwd =
                                [pw |-> slot[s].pw, user |-> r.user]

WitnessC2 ==
    \E s, t \in Slots :
       /\ slot[s].kind = "login" /\ Full(s)
       /\ slot[s].at = "finish" /\ slot[s].res = "Ok"
       /\ slot[t].kind = "login" /\ Full(t)
       /\ slot[t].sawStore.st = "Some"
       /\ slot[t].at = "client" /\ slot[t].res # "Ok"

\* C3: with the store answering, login_start returns success, with an
\* envelope and a credential response, whether the user has no row, a row
\* with a null password, or a stored password file; in the first two
\* situations the exchange fails only later, at the client's finish or at
\* login_finish.
TheoremC3 ==
    /\ \A u \in Users, p \in Passwords, cn \in Nonces, sn \in Nonces :
          LET r == login_start(store,
                       [username |-> u,
                        login_start_request |-> client_start(p, cn).message],
                       sn, TRUE)
          IN  (\/ store[u].st \in {"NoRow", "Null"}
               \/ store[u].st = "Some" /\ file_deserialize(store[u].bytes).ok)
              => /\ r.res = "Ok"
                 /\ r.server_data # NoToken
                 /\ open(ServerKey, base64_decode(r.server_data).ct).ok
                 /\ r.credential_response.t = "login"
                 /\ r.credential_response.user = u
    /\ \A s \in Slots :
          slot[s].kind = "login"
          => /\ (slot[s].at = "start" /\ slot[s].pc = "done")
                => (slot[s].dbFailed \/ slot[s].sit = "Some")
             /\ (Full(s) /\ slot[s].sit \in {"NoRow", "Null"})
                => /\ slot[s].pc = "done"
                      => /\ slot[s].res # "Ok"
                         /\ slot[s].at \in {"client", "finish"}
                   /\ slot[s].pc = "started"
                      => /\ ~honest_finalization(s).ok
                         /\ login_finish(
                               [server_data |-> slot[s].token,
                                credential_finalization |->
                                    dummy_finalization(s)]).res # "Ok"

WitnessC3 ==
    \E s, t \in Slots :
       /\ slot[s].kind = "login" /\ Full(s) /\ slot[s].sit = "NoRow"
       /\ slot[s].pc = "started" /\ slot[s].res = "Ok"
       /\ slot[t].kind = "login" /\ Full(t) /\ slot[t].sit = "Null"
       /\ slot[t].pc = "done" /\ slot[t].at = "client"

\* C4: a server_data token that is not one a start call sealed under the
\* server key (altered, truncated, badly encoded, or sealed under another
\* key) makes the finish call return an error: login_finish names no user,
\* registration_finish makes no store call and leaves the table as it was.
TheoremC4 ==
    /\ \A s \in Slots :
          HoldsToken(s)
          => \A t \in Damaged(slot[s].token) :
                /\ \A f \in {honest_finalization(s).message,
                             dummy_finalization(s)} :
                      LET r == login_finish([server_data |-> t,
                                             credential_finalization |-> f])
                      IN  r.res # "Ok" /\ r.user = "none"
                /\ \A db_ok \in BOOLEAN :
                      LET r == registration_finish(store,
                                   [server_data |-> t,
                                    registration_upload |-> honest_upload(s)],
                                   db_ok)
                      IN  r.res # "Ok" /\ r.store = store /\ r.calls = 0
    /\ \A s \in Slots :
          slot[s].pres = "damaged"
          => /\ slot[s].res \in {"Base64DecodeError", "UnknownCryptoError"}
             /\ slot[s].ret = "none"
             /\ slot[s].calls = 0
             /\ ~slot[s].held

WitnessC4 ==
    \E s, t \in Slots :
       /\ slot[s].kind = "login" /\ slot[s].pres = "damaged"
       /\ slot[s].at = "finish"
       /\ slot[t].kind = "reg" /\ slot[t].pres = "damaged"
       /\ slot[t].at = "finish"

\* C5: once a registration of p2 for a user u with a row has completed
\* after a registration of a different password p1, the table holds for u
\* the one password file of p2, and every login exchange for u started
\* after that (before any further registration_finish for u) succeeds with
\* p2 and fails with any other password, p1 included.
TheoremC5 ==
    /\ \A u \in Users :
          reg[u].over
          => /\ store[u].st = "Some"
             /\ file_deserialize(store[u].bytes).file.rwd =
                   [pw |-> reg[u].last, user |-> u]
    /\ \A s \in Slots :
          (slot[s].kind = "login" /\ Full(s) /\ slot[s].saw.over)
          => /\ slot[s].sawStore.st = "Some"
             /\ file_deserialize(slot[s].sawStore.bytes).file.rwd =
                   [pw |-> slot[s].saw.last, user |-> slot[s].user]
             /\ slot[s].pw = slot[s].saw.last
                => /\ slot[s].pc = "done"
                      => /\ slot[s].at = "finish" /\ slot[s].res = "Ok"
                         /\ slot[s].ret = slot[s].user
                   /\ slot[s].pc = "started"
                      => login_finish(OwnHonest(s)).res = "Ok"
             /\ slot[s].pw # slot[s].saw.last
                => /\ slot[s].pc = "done" => slot[s].res # "Ok"
                   /\ slot[s].pc = "started"
                      => /\ ~honest_finalization(s).ok
                         /\ login_finish(OwnHonest(s)).res # "Ok"

WitnessC5 ==
    \E s, t \in Slots :
       /\ slot[s].kind = "login" /\ Full(s) /\ slot[s].saw.over
       /\ slot[s].pw = slot[s].saw.last
       /\ slot[s].pc = "done" /\ slot[s].res = "Ok"
       /\ slot[t].kind = "login" /\ Full(t) /\ slot[t].saw.over
       /\ slot[t].user = slot[s].user
       /\ slot[t].pw # slot[t].saw.last
       /\ slot[t].pc = "done" /\ slot[t].res # "Ok"

\* C6: for a user whose password file a completed registration wrote, and
\* any cleartext password, bind succeeds exactly when a whole login exchange
\* with the same credentials succeeds in the same state of the table.
TheoremC6 ==
    \A u \in Users, p \in Passwords, cn \in Nonces, sn \in Nonces,
       db_ok \in BOOLEAN :
       store[u].st = "Some"
       => (bind(store, [name |-> u, password |-> p], cn, sn, db_ok).res = "Ok"
           <=> attempt_login(store, u, p, cn, sn, db_ok).res = "Ok")

WitnessC6 ==
    \E s, t \in Slots :
       /\ slot[s].kind = "bind" /\ slot[s].sit = "Some"
       /\ slot[s].res = "Ok"
       /\ slot[t].kind = "bind" /\ slot[t].sit = "Some"
       /\ slot[t].res = "AuthenticationError" /\ ~slot[t].dbFailed

\* C7: every value in the table is the password file the PAKE primitive
\* derives from a registration upload; every registration envelope holds
\* the username and nothing else, every login envelope the username and
\* the server login state and nothing else; no cleartext password is in
\* either.
TheoremC7 ==
    /\ \A u \in Users :
          IF store[u].st = "Some"
          THEN \E up \in Uploads :
                  store[u].bytes = file_serialize(get_password_file(up))
          ELSE store[u].bytes = <<>>
    /\ \A s \in Slots :
          HoldsToken(s)
          => /\ slot[s].token.ct.pt[1] = slot[s].user
             /\ slot[s].token.ct.pt[1] \notin Passwords
             /\ slot[s].kind = "reg" => Len(slot[s].token.ct.pt) = 1
             /\ slot[s].kind = "login"
                => /\ Len(slot[s].token.ct.pt) = 2
                   /\ slot[s].token.ct.pt[2] =
                         [file |-> slot[s].resp.file, cn |-> slot[s].cn,
                          sn |-> slot[s].resp.sn, user |-> slot[s].user]

WitnessC7 ==
    \E s, t \in Slots :
       /\ slot[s].kind = "reg" /\ HoldsToken(s)
       /\ slot[t].kind = "login" /\ HoldsToken(t)
       /\ store[slot[t].user].st = "Some"

\* C8 as stated: whenever registration_finish returns success for an
\* envelope naming u, the table afterwards holds the derived password file
\* for u, whether or not u had a row.
CounterexampleC8 ==
    \A s \in Slots :
       (slot[s].kind = "reg" /\ slot[s].at = "finish" /\ slot[s].res = "Ok")
       => slot[s].held

\* C8, amended: the write is an update of the row of u.  When
\* registration_finish returns success for an envelope naming u, the table
\* afterwards holds the derived password file for u exactly when u had a
\* row; and after a registration of p by an honest client for a user with
\* a row, a login for u with p started afterwards succeeds.
TheoremC8 ==
    /\ \A s \in Slots :
          (slot[s].kind = "reg" /\ slot[s].at = "finish"
           /\ slot[s].res = "Ok")
          => (slot[s].held <=> slot[s].row)
    /\ \A u \in Users, cn \in Nonces, sn \in Nonces :
          reg[u].last \in Passwords
          => attempt_login(store, u, reg[u].last, cn, sn, TRUE) =
                [res |-> "Ok", user |-> u]

WitnessC8 ==
    \E s \in Slots :
       /\ slot[s].kind = "reg" /\ Full(s) /\ slot[s].at = "finish"
       /\ slot[s].res = "Ok" /\ slot[s].row /\ slot[s].held
       /\ reg[slot[s].user].last = slot[s].pw

\* C9 as stated: after a finish call has accepted an envelope, a second
\* finish call presenting the same envelope is not accepted.
CounterexampleC9 == \A s \in Slots : slot[s].nacc <= 1

\* C9, amended: an envelope is not used up.  After a finish call has
\* accepted an envelope, a second finish call presenting the same envelope
\* with the same client message is accepted again: login_finish names the
\* same user, registration_finish writes the same password file.
TheoremC9 ==
    \A s \in Slots :
       /\ (slot[s].kind = "login" /\ Full(s) /\ slot[s].nacc = 1)
          => login_finish(OwnHonest(s)) =
                [res |-> "Ok", user |-> slot[s].ret]
       /\ (slot[s].kind = "reg" /\ Full(s) /\ slot[s].nacc = 1)
          => LET r == registration_finish(store,
                         [server_data |-> slot[s].token,
                          registration_upload |-> honest_upload(s)], TRUE)
             IN  /\ r.res = "Ok"
                 /\ r.username = slot[s].ret
                 /\ store[r.username].st # "NoRow"
                    => r.store[r.username] =
                          Stored(file_serialize(
                              get_password_file(honest_upload(s))))
       /\ (~Full(s) /\ slot[s].pres = "own" /\ slot[s].at = "finish"
           /\ ~slot[s].dbFailed /\ slot[s].fin # "dummy")
          => slot[s].res = "Ok" /\ slot[s].nacc = 2

WitnessC9 ==
    \E s, t \in Slots :
       /\ slot[s].kind = "login" /\ slot[s].nacc = 2 /\ slot[s].res = "Ok"
       /\ slot[t].kind = "reg" /\ slot[t].nacc = 2 /\ slot[t].res = "Ok"

\* C10 as stated: in login_start, registration_finish and bind, a failure
\* of the store call is returned to the caller as an internal error, not an
\* authentication failure, and the store call is made once.
CounterexampleC10 ==
    \A s \in Slots :
       slot[s].dbFailed
       => slot[s].res = "DatabaseError" /\ slot[s].calls = 1

\* C11: bind returns success only when the store call returned a row for
\* the user, the row's password is not null, and the stored file is the one
\* derived from the given password for that user; in every other case (no
\* row, null password, bytes that do not decode, wrong password) it returns
\* AuthenticationError, and with no row or a null password passwords_match
\* is not run.
TheoremC11 ==
    /\ \A u \in Users, p \in Passwords, cn \in Nonces, sn \in Nonces,
          db_ok \in BOOLEAN :
          LET r == bind(store, [name |-> u, password |-> p], cn, sn, db_ok)
              d == file_deserialize(store[u].bytes)
              good == /\ db_ok
                      /\ store[u].st = "Some"
                      /\ d.ok
                      /\ d.file.rwd = [pw |-> p, user |-> u]
          IN  /\ r.res = IF good THEN "Ok" ELSE "AuthenticationError"
              /\ store[u].st \in {"NoRow", "Null"} => ~r.pm
              /\ r.res = "Ok" => r.pm
    /\ \A s \in Slots :
          slot[s].kind = "bind"
          => /\ slot[s].res \in {"Ok", "AuthenticationError"}
             /\ slot[s].res = "Ok"
                => /\ slot[s].sit = "Some" /\ slot[s].pm
                   /\ ~slot[s].dbFailed /\ ~slot[s].undec
             /\ slot[s].sit \in {"NoRow", "Null"}
                => ~slot[s].pm /\ slot[s].res = "AuthenticationError"

WitnessC11 ==
    \E s \in Slots, u \in Users :
       /\ slot[s].kind = "bind" /\ slot[s].undec /\ slot[s].pm
       /\ ~slot[s].dbFailed /\ slot[s].res = "AuthenticationError"
       /\ store[u].st = "Some" /\ file_deserialize(store[u].bytes).ok

\* C13: when the bytes stored for u do not deserialize and the store call
\* itself succeeds, login_start returns InternalError, with no envelope and
\* no credential response.
TheoremC13 ==
    /\ \A u \in Users, p \in Passwords, cn \in Nonces, sn \in Nonces :
          Undecodable(store[u])
          => login_start(store,
                 [username |-> u,
                  login_start_request |-> client_start(p, cn).message],
                 sn, TRUE)
             = [res |-> "InternalError", server_data |-> NoToken,
                credential_response |-> NoResponse, calls |-> 1]
    /\ \A s \in Slots :
          (slot[s].kind = "login" /\ slot[s].at = "start"
           /\ slot[s].undec /\ ~slot[s].dbFailed)
          => /\ slot[s].res = "InternalError"
             /\ slot[s].pc = "done"
             /\ slot[s].token = NoToken
             /\ slot[s].resp = NoResponse

WitnessC13 ==
    \E s \in Slots :
       /\ slot[s].kind = "login" /\ slot[s].at = "start"
       /\ slot[s].undec /\ ~slot[s].dbFailed
       /\ slot[s].res = "InternalError"

\* C12: a step of registration_start, login_start, login_finish or bind,
\* successful or not, leaves the table as it was, and so does a
\* registration_finish that returns an error; the table changes only in a
\* step where registration_finish returns success, and then only in the
\* row of the user its envelope names.  (Rows themselves are created by
\* the user-management side, with a null password.)
TheoremC12 ==
    [][/\ \A s \in Slots :
             slot'[s] # slot[s]
             => \/ store' = store
                \/ /\ slot[s].kind = "reg" /\ HoldsToken(s)
                   /\ slot'[s].kind = "reg" /\ slot'[s].at = "finish"
                   /\ slot'[s].res = "Ok"
                   /\ slot'[s].ret \in Users
                   /\ \A u \in Users \ {slot'[s].ret} :
                         store'[u] = store[u]
       /\ store' # store
          => \/ \E s \in Slots : slot'[s] # slot[s]
             \/ \E u \in Users :
                   /\ store[u] = NoRow
                   /\ store' = [store EXCEPT ![u] = NullPassword]
      ]_vars

WitnessC12 ==
    \E s, t \in Slots :
       /\ slot[s].kind = "login" /\ slot[s].pc = "started"
       /\ slot[t].kind = "reg" /\ slot[t].pc = "started"
       /\ slot[t].user = slot[s].user
       /\ store[slot[s].user].st = "Some"
       /\ store[slot[s].user] = slot[s].sawStore

\* The usernames given to the start calls that returned this token.
StartUsers(token) ==
    {slot[t].user : t \in {x \in Slots : slot[x].token = token}}

\* C14: a finish call acts on the username that was given to the start
\* call which sealed the envelope it is presented with, whatever else the
\* request holds: registration_finish changes at most the row of that
\* username, login_finish returns that username, and an envelope re-sealed
\* for another username does not open.
TheoremC14 ==
    /\ \A s \in Slots :
          HoldsToken(s)
          => \A pr \in Presentations(s) :
                /\ \A upload \in Uploads \cup {honest_upload(s)} :
                      LET r == registration_finish(store,
                                   [server_data |-> pr.token,
                                    registration_upload |-> upload], TRUE)
                      IN  IF r.res = "Ok"
                          THEN /\ pr.pres # "damaged"
                               /\ r.username \in StartUsers(pr.token)
                               /\ \A u \in Users \ {r.username} :
                                     r.store[u] = store[u]
                          ELSE r.store = store
                /\ \A f \in {honest_finalization(s).message,
                             dummy_finalization(s)} :
                      LET r == login_finish([server_data |-> pr.token,
                                             credential_finalization |-> f])
                      IN  IF r.res = "Ok"
                          THEN /\ pr.pres # "damaged"
                               /\ r.user \in StartUsers(pr.token)
                          ELSE r.user = "none"
    /\ \A s \in Slots :
          (Full(s) /\ slot[s].at = "finish" /\ slot[s].res = "Ok")
          => slot[s].ret = slot[s].user

WitnessC14 ==
    \E s, t \in Slots :
       /\ slot[s].kind = "reg" /\ slot[s].pres = "reg"
       /\ slot[s].at = "finish" /\ slot[s].res = "Ok"
       /\ slot[s].ret \in Users /\ slot[s].row
       /\ slot[t].kind = "reg" /\ HoldsToken(t)
       /\ slot[t].user = slot[s].ret
       /\ \E u \in Users \ {slot[s].ret} : store[u].st # "NoRow"

\* C15: when two registration exchanges for the same user with a row, with
\* different passwords, are both in flight, whichever registration_finish
\* runs (first or last, its start call first or last) leaves in the table
\* exactly the password file of its own exchange; so after both have
\* returned success the table holds the file of the one that ran last, and
\* a login started then succeeds with that password and fails with the
\* other.
TheoremC15 ==
    [][\A s, t \in Slots :
          (/\ s # t
           /\ slot[s].kind = "reg" /\ slot[s].pc = "started"
           /\ slot'[s].pc = "done" /\ slot'[s].res = "Ok"
           /\ slot'[s].pres = "own" /\ slot'[s].row
           /\ slot[t].kind = "reg" /\ Full(t)
           /\ slot[t].user = slot[s].user
           /\ slot[t].pw # slot[s].pw)
          => /\ store'[slot[s].user] =
                   Stored(file_serialize(get_password_file(honest_upload(s))))
             /\ reg'[slot[s].user].last = slot[s].pw
             /\ \A cn \in Nonces, sn \in Nonces :
                   /\ attempt_login(store', slot[s].user, slot[s].pw,
                                    cn, sn, TRUE) =
                         [res |-> "Ok", user |-> slot[s].user]
                   /\ attempt_login(store', slot[s].user, slot[t].pw,
                                    cn, sn, TRUE).res # "Ok"
      ]_vars

WitnessC15 ==
    \E s, t \in Slots :
       /\ slot[s].kind = "reg" /\ Full(s) /\ slot[s].pc = "done"
       /\ slot[s].res = "Ok" /\ slot[s].row /\ slot[s].nacc = 1
       /\ slot[t].kind = "reg" /\ Full(t) /\ slot[t].pc = "done"
       /\ slot[t].res = "Ok" /\ slot[t].row /\ slot[t].nacc = 1
       /\ slot[t].user = slot[s].user /\ slot[t].pw # slot[s].pw
       /\ reg[slot[s].user] = [last |-> slot[s].pw, over |-> TRUE]
       /\ store[slot[s].user] =
             Stored(file_serialize(get_password_file(honest_upload(s))))

\* C16: what login_finish returns is decided by the envelope, the client's
\* finalization and the server key, not by the table: a login exchange of
\* an honest client succeeds exactly when the row that login_start found
\* held the password file of the client's password, whatever the user's
\* row holds by the time login_finish runs.
TheoremC16 ==
    \A s \in Slots :
       (slot[s].kind = "login" /\ Full(s))
       => LET seen == slot[s].sawStore
              matched == /\ seen.st = "Some"
                         /\ file_deserialize(seen.bytes).ok
                         /\ file_deserialize(seen.bytes).file.rwd =
                               [pw |-> slot[s].pw, user |-> slot[s].user]
          IN  /\ slot[s].pc = "started"
                 => /\ honest_finalization(s).ok <=> matched
                    /\ login_finish(OwnHonest(s)) =
                          IF matched
                          THEN [res |-> "Ok", user |-> slot[s].user]
                          ELSE [res |-> "AuthenticationProtocolError",
                                user |-> "none"]
              /\ slot[s].pc = "done"
                 => (slot[s].res = "Ok" <=> matched)

WitnessC16 ==
    \E s \in Slots :
       /\ slot[s].kind = "login" /\ Full(s) /\ slot[s].pc = "done"
       /\ slot[s].at = "finish" /\ slot[s].res = "Ok"
       /\ slot[s].stale
       /\ slot[s].ret = slot[s].user

\* C17 as stated: registration_finish accepts only envelopes that
\* registration_start sealed and login_finish only envelopes that
\* login_start sealed; an envelope from login_start presented to
\* registration_finish with a registration upload writes no password file.
CounterexampleC17 ==
    \A s \in Slots :
       /\ (slot[s].kind = "reg" /\ slot[s].pres = "login")
          => slot[s].res # "Ok" /\ ~slot[s].held
       /\ (slot[s].kind = "login" /\ slot[s].pres = "reg")
          => slot[s].res # "Ok"

=============================================================================
